---- MODULE Spec2Model ----
(***************************************************************************)
(* Event Explorer: the list view (events page), the detail view (event     *)
(* page with the register toggle) and the profile view, all working on the *)
(* browser's localStorage keys registrations_<user id>.                    *)
(*                                                                         *)
(* Values that may be null in the program are kept as sequences of length  *)
(* at most one: <<>> is null, <<x>> is the value x.                        *)
(***************************************************************************)
EXTENDS Integers, Sequences, FiniteSets, TLC

\* ------------------------------------------------------------------ bounds

\* The clock runs over the instants 0 .. MaxNow.
MaxNow == 1
\* Instants per calendar day: the clock's last instant starts the next day.
TicksPerDay == MaxNow
\* Longest registration list the register branch still appends to.
MaxRegs == 3
\* Most requests one view keeps in flight at a time.
MaxInFlight == 2

\* ------------------------------------------------------------- the domain

Users == {"u1", "u2"}
NoUser == "null"
NoError == "null"

DetailViews == {"d1", "d2"}
ProfileViews == {"p1"}

None == <<>>
Some(x) == <<x>>
IsSome(o) == Len(o) = 1
Val(o) == o[1]

\* Route parameters (strings) the detail page is opened with.
EventParams == {"1", "2"}

\* What issued a request: an effect (mount, route change) or the Try Again button.
Origins == {"effect", "retry"}

\* Every route parameter some specification opens the detail page with: the
\* two above, and an event whose identifier leaves 7 when divided by 8.
AllParams == EventParams \cup {"7"}
Requests == AllParams \X Origins

\* Number.parseInt on the route parameters in use.
ParseInt(s) == CASE s = "1" -> 1 [] s = "2" -> 2 [] s = "3" -> 3 [] s = "7" -> 7 [] OTHER -> -1

\* What the external API answers for products/<id>: a sample of the catalog.
Catalog ==
  [p \in {"1", "2", "3", "7"} |->
     CASE p = "1" -> [id |-> 1, title |-> "Eg", price |-> 3, thumbnail |-> "t1",
                      images |-> <<"i1a", "i1b">>, category |-> "tops", stock |-> 5]
       [] p = "2" -> [id |-> 2, title |-> "ToE", price |-> 5, thumbnail |-> "t2",
                      images |-> <<>>, category |-> "beauty", stock |-> 7]
       [] p = "7" -> [id |-> 7, title |-> "Et", price |-> 2, thumbnail |-> "t7",
                      images |-> <<>>, category |-> "lighting", stock |-> 1]
       [] OTHER   -> [id |-> 3, title |-> "gO", price |-> 4, thumbnail |-> "t3",
                      images |-> <<"i3a">>, category |-> "tops", stock |-> 0]]

\* products?limit=20: the page of events, in the API's order.
CatalogPage == <<Catalog["1"], Catalog["2"], Catalog["3"]>>

\* ---------------------------------------------------------------- strings

\* The characters of the strings the list view searches.
Chars(s) ==
  CASE s = "Eg"     -> <<"E", "g">>
    [] s = "ToE"    -> <<"T", "o", "E">>
    [] s = "gO"     -> <<"g", "O">>
    [] s = "tops"   -> <<"t", "o", "p", "s">>
    [] s = "beauty" -> <<"b", "e", "a", "u", "t", "y">>
    [] OTHER        -> <<>>

\* String.prototype.toLowerCase, character by character.
LowerChar(c) ==
  CASE c = "E" -> "e" [] c = "G" -> "g" [] c = "O" -> "o" [] c = "T" -> "t" [] OTHER -> c

toLowerCase(cs) == [i \in 1..Len(cs) |-> LowerChar(cs[i])]

\* String.prototype.includes: needle occurs in hay as a contiguous run.
includes(hay, needle) ==
  \E i \in 0..(Len(hay) - Len(needle)) : SubSeq(hay, i + 1, i + Len(needle)) = needle

\* ------------------------------------------------------------------ dates

DaysInMonth == <<31, 28, 31, 30, 31, 30, 31, 31, 30, 31, 30, 31>>
LongMonth == <<"January", "February", "March", "April", "May", "June", "July",
               "August", "September", "October", "November", "December">>
ShortMonth == <<"Jan", "Feb", "Mar", "Apr", "May", "Jun", "Jul",
                "Aug", "Sep", "Oct", "Nov", "Dec">>
Weekday == <<"Sunday", "Monday", "Tuesday", "Wednesday", "Thursday", "Friday", "Saturday">>

RECURSIVE MonthDay(_, _)
\* Month and day of the month of the d-th day (from 0) counted from the 1st of month m.
MonthDay(m, d) ==
  IF d < DaysInMonth[m] THEN <<m, d + 1>> ELSE MonthDay(m + 1, d - DaysInMonth[m])

\* The calendar date of day n, where day 0 is Thursday 29 January 2026.
Civil(n) ==
  LET doy == n + 28
      md  == MonthDay(1, doy % 365)
  IN  [weekday |-> Weekday[((4 + doy) % 7) + 1], month |-> md[1], day |-> md[2],
       year |-> 2026 + (doy \div 365)]

\* Date.prototype.toISOString of an instant, and new Date(iso).getTime() back.
toISOString(t) == [date |-> t \div TicksPerDay, time |-> t % TicksPerDay]
getTime(iso) == iso.date * TicksPerDay + iso.time

\* ------------------------------------------------------------------ state

VARIABLES
  now,      \* the clock: the instant new Date() returns
  storage,  \* localStorage: user id -> the text under registrations_<id>, or null
  detail,   \* detail view -> the state of EventDetailContent in that tab
  profile,  \* profile view -> the state of ProfileContent in that tab
  list,     \* the state of EventsContent (the list view)
  toast     \* the toast shown last: the view that raised it and its title

vars == <<now, storage, detail, profile, list, toast>>

\* The calendar day of the clock.
today == now \div TicksPerDay

\* ------------------------------------------- presentational fields (detail)

\* formatDate of the detail view: weekday, long month, day, year of
\* today + (eventId % 30) + 1.
\* `day` is the day new Date() falls on.
formatDateOn(day, eventId) ==
  LET c == Civil(day + (eventId % 30) + 1)
  IN  [weekday |-> c.weekday, month |-> LongMonth[c.month], day |-> c.day, year |-> c.year]

formatDate(eventId) == formatDateOn(today, eventId)

\* formatTime: "<hours>:<minutes, two digits> <AM|PM>".
formatTime(eventId) ==
  LET hours   == 9 + (eventId % 8)
      minutes == (eventId % 4) * 15
  IN  [hours |-> hours, minutes |-> <<minutes \div 10, minutes % 10>>,
       suffix |-> IF hours >= 12 THEN "PM" ELSE "AM"]

locations ==
  [c \in {"smartphones", "laptops", "fragrances", "skincare", "groceries",
          "home-decoration", "furniture", "tops", "womens-dresses", "womens-shoes",
          "mens-shirts", "mens-shoes", "mens-watches", "womens-watches", "womens-bags",
          "womens-jewellery", "sunglasses", "automotive", "motorcycle", "lighting"} |->
     CASE c = "smartphones"      -> "Tech Center, Silicon Valley"
       [] c = "laptops"          -> "Innovation Hub, Downtown"
       [] c = "fragrances"       -> "Wellness Center, Midtown"
       [] c = "skincare"         -> "Beauty Lounge, Fashion District"
       [] c = "groceries"        -> "Community Hall, Central Park"
       [] c = "home-decoration"  -> "Design Studio, Arts Quarter"
       [] c = "furniture"        -> "Exhibition Center, Convention Ave"
       [] c = "tops"             -> "Fashion District, Style Street"
       [] c = "womens-dresses"   -> "Style Arena, Fashion Plaza"
       [] c = "womens-shoes"     -> "Fashion Plaza, Boutique Row"
       [] c = "mens-shirts"      -> "Men's Pavilion, Commerce St"
       [] c = "mens-shoes"       -> "Sports Complex, Athletic Ave"
       [] c = "mens-watches"     -> "Luxury Lounge, Premium Plaza"
       [] c = "womens-watches"   -> "Elegance Hall, Jewelry District"
       [] c = "womens-bags"      -> "Accessories Center, Style Square"
       [] c = "womens-jewellery" -> "Jewelry Gallery, Diamond Row"
       [] c = "sunglasses"       -> "Outdoor Plaza, Sunshine Blvd"
       [] c = "automotive"       -> "Auto Expo Center, Motor Mile"
       [] c = "motorcycle"       -> "Motor Sports Arena, Speed Way"
       [] c = "lighting"         -> "Design Center, Innovation Park"]

getLocation(category) ==
  IF category \in DOMAIN locations THEN locations[category] ELSE "Event Center, Main Street"

\* formatDate of the list view: short month, day, year of the same day.
listFormatDate(eventId) ==
  LET c == Civil(today + (eventId % 30) + 1)
  IN  [month |-> ShortMonth[c.month], day |-> c.day, year |-> c.year]

\* ------------------------------------------------------------ JSON, storage

\* JSON.stringify of a registration list: each object's values in property order.
JSONstringify(events) ==
  [i \in 1..Len(events) |->
     <<events[i].id, events[i].title, events[i].price, events[i].thumbnail,
       events[i].category, events[i].registeredAt, events[i].eventDate,
       events[i].location>>]

\* JSON.parse of such a text.
JSONparse(text) ==
  [i \in 1..Len(text) |->
     [id |-> text[i][1], title |-> text[i][2], price |-> text[i][3],
      thumbnail |-> text[i][4], category |-> text[i][5], registeredAt |-> text[i][6],
      eventDate |-> text[i][7], location |-> text[i][8]]]

\* userRegistrations ? JSON.parse(userRegistrations) : []
parseStored(userRegistrations) ==
  IF IsSome(userRegistrations) THEN JSONparse(Val(userRegistrations)) ELSE <<>>

\* getRegisteredEvents with the signed-in user `user`.
getRegisteredEvents(user) ==
  IF user = NoUser THEN <<>> ELSE parseStored(storage[user])

\* Mutant: the list is saved under one key shared by all users.
saveRegisteredEvents_sharedKey(user, events) ==
  IF user = NoUser THEN storage
  ELSE [u \in Users |-> Some(JSONstringify(events))]

\* saveRegisteredEvents: the storage after it has run for `user`.
saveRegisteredEvents(user, events) ==
  IF user = NoUser THEN storage
  ELSE [storage EXCEPT ![user] = Some(JSONstringify(events))]

\* Array.prototype.filter keeping the registrations whose id is not `id`.
RECURSIVE filterOut(_, _)
filterOut(events, id) ==
  IF events = <<>> THEN <<>>
  ELSE IF Head(events).id # id THEN <<Head(events)>> \o filterOut(Tail(events), id)
       ELSE filterOut(Tail(events), id)

\* Array.prototype.some: a registration with this id is in the list.
some(events, id) == \E i \in 1..Len(events) : events[i].id = id

\* ------------------------------------------------------------ detail view

\* useState initial values of EventDetailContent, before the view is opened.
DetailInit ==
  [mounted |-> FALSE, user |-> NoUser, eventId |-> "", event |-> None, loading |-> TRUE,
   error |-> NoError, currentImageIndex |-> 0, isRegistered |-> FALSE,
   registering |-> FALSE, inflight |-> [r \in Requests |-> 0]]

\* fetchEventDetail up to its first await: the view with the request issued.
fetchEventDetail(v, origin) ==
  [v EXCEPT !.loading = TRUE, !.error = NoError, !.inflight[<<v.eventId, origin>>] = @ + 1]

\* Mutant: the status check runs without looking at the user.
checkRegistrationStatus_noGuard(v) ==
  [v EXCEPT !.isRegistered = some(getRegisteredEvents(v.user), ParseInt(v.eventId))]

\* checkRegistrationStatus, as the effect on [user, eventId] runs it.
checkRegistrationStatus(v) ==
  IF v.user = NoUser \/ v.eventId = "" THEN v
  ELSE LET registeredEvents == getRegisteredEvents(v.user)
           isAlreadyRegistered == some(registeredEvents, ParseInt(v.eventId))
       IN  [v EXCEPT !.isRegistered = isAlreadyRegistered]

\* The registration handleRegister builds from the displayed event.
newRegistration(event) ==
  [id |-> event.id, title |-> event.title, price |-> event.price,
   thumbnail |-> event.thumbnail, category |-> event.category,
   registeredAt |-> toISOString(now), eventDate |-> formatDate(event.id),
   location |-> getLocation(event.category)]

\* Mutant: the new registration is put first.
registerUpdated_prepend(registeredEvents, event) ==
  <<newRegistration(event)>> \o registeredEvents

\* updatedEvents of the register branch: [...registeredEvents, newRegistration].
registerUpdated(registeredEvents, event) == Append(registeredEvents, newRegistration(event))

\* Mutant: only the first registration with the event's id is removed.
RECURSIVE removeFirst(_, _)
removeFirst(events, id) ==
  IF events = <<>> THEN <<>>
  ELSE IF Head(events).id = id THEN Tail(events)
       ELSE <<Head(events)>> \o removeFirst(Tail(events), id)

unregisterUpdated_firstOnly(registeredEvents, event) == removeFirst(registeredEvents, event.id)

\* Mutant: the unregister branch stores the empty list.
unregisterUpdated_clearsAll(registeredEvents, event) == <<>>

\* updatedEvents of the unregister branch: filter(regEvent.id !== event.id).
unregisterUpdated(registeredEvents, event) == filterOut(registeredEvents, event.id)

\* The page body (not the spinner, not the error card) is rendered.
\* The number of requests view v has in flight.
RECURSIVE sumOver(_, _)
sumOver(f, S) ==
  IF S = {} THEN 0 ELSE LET x == CHOOSE y \in S : TRUE IN f[x] + sumOver(f, S \ {x})

pending(v) == sumOver(v.inflight, Requests)

DetailShown(v) == v.mounted /\ ~v.loading /\ v.error = NoError /\ IsSome(v.event)

\* The error card with its Try Again button is rendered.
DetailRetryOffered(v) == v.mounted /\ ~v.loading /\ (v.error # NoError \/ ~IsSome(v.event))

\* The page is opened in tab d by user u on /events/<id>: both effects run.
MountDetail(d, u, id) ==
  /\ ~detail[d].mounted
  /\ detail' = [detail EXCEPT ![d] =
       checkRegistrationStatus(
         fetchEventDetail([@ EXCEPT !.mounted = TRUE, !.user = u, !.eventId = id], "effect"))]
  /\ UNCHANGED <<now, storage, profile, list, toast>>

\* The route parameter of an open page changes: both effects run again.
RouteChange(d, id) ==
  /\ detail[d].mounted
  /\ id # detail[d].eventId
  /\ pending(detail[d]) < MaxInFlight
  /\ detail' = [detail EXCEPT ![d] =
       checkRegistrationStatus(fetchEventDetail([@ EXCEPT !.eventId = id], "effect"))]
  /\ UNCHANGED <<now, storage, profile, list, toast>>

\* useAuth() hands an open page another user object (a session restored, a
\* logout): the effect on [user, eventId] runs again, the fetch effect does not.
UserChange(d, u) ==
  /\ detail[d].mounted
  /\ u # detail[d].user
  /\ detail' = [detail EXCEPT ![d] = checkRegistrationStatus([@ EXCEPT !.user = u])]
  /\ UNCHANGED <<now, storage, profile, list, toast>>

\* A request for products/<id> resolves with an OK response.
FetchEventDetailOk(d, id, origin) ==
  /\ detail[d].inflight[<<id, origin>>] > 0
  /\ id \in DOMAIN Catalog
  /\ detail' = [detail EXCEPT ![d].event = Some(Catalog[id]), ![d].loading = FALSE,
                              ![d].inflight[<<id, origin>>] = @ - 1]
  /\ UNCHANGED <<now, storage, profile, list, toast>>

\* A request for products/<id> rejects, or its response is not OK.
FetchEventDetailFail(d, id, origin) ==
  /\ detail[d].inflight[<<id, origin>>] > 0
  /\ detail' = [detail EXCEPT
       ![d].error = "Failed to load event details. Please try again.",
       ![d].loading = FALSE, ![d].inflight[<<id, origin>>] = @ - 1]
  /\ toast' = [view |-> d, title |-> "Error"]
  /\ UNCHANGED <<now, storage, profile, list>>

\* Try Again on the error card.
RetryDetail(d) ==
  /\ DetailRetryOffered(detail[d])
  /\ pending(detail[d]) < MaxInFlight
  /\ detail' = [detail EXCEPT ![d] = fetchEventDetail(@, "retry")]
  /\ UNCHANGED <<now, storage, profile, list, toast>>

\* A thumbnail of the gallery is clicked.
SetCurrentImageIndex(d, index) ==
  /\ DetailShown(detail[d])
  /\ LET event == Val(detail[d].event)
         allImages == IF Len(event.images) > 0 THEN event.images ELSE <<event.thumbnail>>
     IN  Len(allImages) > 1 /\ index \in 0..(Len(allImages) - 1)
  /\ detail' = [detail EXCEPT ![d].currentImageIndex = index]
  /\ UNCHANGED <<now, storage, profile, list, toast>>

\* handleRegister, run to its end; `outcome` says whether localStorage throws.
HandleRegister(d, outcome) ==
  LET v == detail[d]
      event == Val(v.event)
  IN
  /\ DetailShown(v)
  /\ ~v.registering /\ event.stock # 0
  /\ IF v.user = NoUser
     THEN UNCHANGED <<detail, storage, toast>>
     ELSE LET registeredEvents == getRegisteredEvents(v.user)
          IN  CASE outcome = "ok" /\ v.isRegistered ->
                     /\ storage' = saveRegisteredEvents(v.user,
                                     unregisterUpdated(registeredEvents, event))
                     /\ detail' = [detail EXCEPT ![d].isRegistered = FALSE,
                                                 ![d].registering = FALSE]
                     /\ toast' = [view |-> d, title |-> "Unregistered Successfully"]
                [] outcome = "ok" /\ ~v.isRegistered ->
                     /\ Len(registeredEvents) < MaxRegs
                     /\ storage' = saveRegisteredEvents(v.user,
                                     registerUpdated(registeredEvents, event))
                     /\ detail' = [detail EXCEPT ![d].isRegistered = TRUE,
                                                 ![d].registering = FALSE]
                     /\ toast' = [view |-> d, title |-> "Registration Successful!"]
                [] OTHER ->
                     /\ detail' = [detail EXCEPT ![d].registering = FALSE]
                     /\ toast' = [view |-> d, title |-> "Registration Failed"]
                     /\ UNCHANGED storage
  /\ UNCHANGED <<now, profile, list>>

\* ----------------------------------------------------------- profile view

\* useState initial values of ProfileContent, before the view is opened.
ProfileInit == [mounted |-> FALSE, user |-> NoUser, registeredEvents |-> <<>>, loading |-> TRUE]

\* Array.prototype.sort with the comparator b.registeredAt - a.registeredAt: a
\* stable sort, newest first. insertSorted puts x behind every entry that is not older.
RECURSIVE insertSorted(_, _)
insertSorted(sorted, x) ==
  IF sorted = <<>> THEN <<x>>
  ELSE IF getTime(Head(sorted).registeredAt) >= getTime(x.registeredAt)
       THEN <<Head(sorted)>> \o insertSorted(Tail(sorted), x)
       ELSE <<x>> \o sorted

\* Mutant: the loaded list is displayed in stored order.
sortNewestFirst_storedOrder(events) == events

RECURSIVE sortNewestFirst(_)
sortNewestFirst(events) ==
  IF events = <<>> THEN <<>>
  ELSE insertSorted(sortNewestFirst(SubSeq(events, 1, Len(events) - 1)), events[Len(events)])

\* The list loadRegisteredEvents puts on display for `user`.
loadedEvents(user) ==
  LET events == parseStored(storage[user])
  IN  sortNewestFirst(events)

\* updatedEvents of the profile's handleUnregister: computed from the displayed list.
profileUpdated(registeredEvents, eventId) == filterOut(registeredEvents, eventId)

\* getTotalSpent: reduce((total, event) => total + event.price, 0).
RECURSIVE reduceTotal(_, _)
reduceTotal(total, events) ==
  IF events = <<>> THEN total ELSE reduceTotal(total + Head(events).price, Tail(events))

getTotalSpent(registeredEvents) == reduceTotal(0, registeredEvents)

\* new Set(values): the values in insertion order, each kept once.
RECURSIVE newSet(_, _)
newSet(acc, values) ==
  IF values = <<>> THEN acc
  ELSE newSet(IF \E i \in 1..Len(acc) : acc[i] = Head(values) THEN acc
              ELSE Append(acc, Head(values)), Tail(values))

\* Mutant: the categories are counted without the Set.
categoryCount_noSet(registeredEvents) ==
  Len([i \in 1..Len(registeredEvents) |-> registeredEvents[i].category])

\* The three figures of the profile card, as the render computes them:
\* registeredEvents.length, getTotalSpent() and the size of the category Set.
totalEvents(registeredEvents) == Len(registeredEvents)
categoryCount(registeredEvents) ==
  Len(newSet(<<>>, [i \in 1..Len(registeredEvents) |-> registeredEvents[i].category]))

\* Mutant: loadRegisteredEvents without its finally block.
loadRegisteredEvents_noFinally(v, outcome) ==
  IF v.user = NoUser \/ outcome # "ok" THEN v
  ELSE [v EXCEPT !.registeredEvents = loadedEvents(v.user), !.loading = FALSE]

\* loadRegisteredEvents, as the effect on [user] runs it on view v; `outcome`
\* says whether reading or parsing throws.
loadRegisteredEvents(v, outcome) ==
  IF v.user = NoUser THEN v
  ELSE IF outcome = "ok"
       THEN [v EXCEPT !.registeredEvents = loadedEvents(v.user), !.loading = FALSE]
       ELSE [v EXCEPT !.loading = FALSE]

\* The toast after loadRegisteredEvents has run in view p.
loadToast(p, u, outcome) ==
  IF u # NoUser /\ outcome # "ok" THEN [view |-> p, title |-> "Error"] ELSE toast

\* The profile page is opened (or reloaded) in tab p by user u.
MountProfile(p, u, outcome) ==
  /\ profile' = [profile EXCEPT ![p] =
       loadRegisteredEvents([ProfileInit EXCEPT !.mounted = TRUE, !.user = u], outcome)]
  /\ toast' = loadToast(p, u, outcome)
  /\ UNCHANGED <<now, storage, detail, list>>

\* useAuth() hands the open profile page another user object: the effect on
\* [user] runs again.
ProfileUserChange(p, u, outcome) ==
  /\ profile[p].mounted
  /\ u # profile[p].user
  /\ profile' = [profile EXCEPT ![p] = loadRegisteredEvents([@ EXCEPT !.user = u], outcome)]
  /\ toast' = loadToast(p, u, outcome)
  /\ UNCHANGED <<now, storage, detail, list>>

\* handleUnregister of the profile page, on the card of registration eventId.
HandleUnregister(p, eventId, outcome) ==
  LET v == profile[p]
  IN
  /\ v.mounted /\ ~v.loading
  /\ some(v.registeredEvents, eventId)
  /\ IF v.user = NoUser
     THEN UNCHANGED <<profile, storage, toast>>
     ELSE IF outcome = "ok"
          THEN LET updatedEvents == profileUpdated(v.registeredEvents, eventId)
               IN  /\ storage' = [storage EXCEPT ![v.user] = Some(JSONstringify(updatedEvents))]
                   /\ profile' = [profile EXCEPT ![p].registeredEvents = updatedEvents]
                   /\ toast' = [view |-> p, title |-> "Unregistered Successfully"]
          ELSE /\ toast' = [view |-> p, title |-> "Error"]
               /\ UNCHANGED <<profile, storage>>
  /\ UNCHANGED <<now, detail, list>>

\* -------------------------------------------------------------- list view

\* useState initial values of EventsContent, before the view is opened.
ListInit ==
  [mounted |-> FALSE, events |-> <<>>, loading |-> TRUE, searchTerm |-> <<>>,
   error |-> NoError, inflight |-> 0]

\* fetchEvents up to its first await.
fetchEvents(v) == [v EXCEPT !.loading = TRUE, !.error = NoError, !.inflight = @ + 1]

\* Mutant: the search term is compared as typed, not lowered.
matches_termAsTyped(event, searchTerm) ==
  \/ includes(toLowerCase(Chars(event.title)), searchTerm)
  \/ includes(toLowerCase(Chars(event.category)), searchTerm)

\* The predicate of filteredEvents.
matches(event, searchTerm) ==
  \/ includes(toLowerCase(Chars(event.title)), toLowerCase(searchTerm))
  \/ includes(toLowerCase(Chars(event.category)), toLowerCase(searchTerm))

RECURSIVE filterMatches(_, _)
filterMatches(events, searchTerm) ==
  IF events = <<>> THEN <<>>
  ELSE IF matches(Head(events), searchTerm)
       THEN <<Head(events)>> \o filterMatches(Tail(events), searchTerm)
       ELSE filterMatches(Tail(events), searchTerm)

\* filteredEvents, recomputed by every render.
filteredEvents(v) == filterMatches(v.events, v.searchTerm)

\* The page body (not the spinner) is rendered.
ListShown(v) == v.mounted /\ ~v.loading

\* The events page is opened: the mount effect runs fetchEvents.
MountList ==
  /\ ~list.mounted
  /\ list' = fetchEvents([list EXCEPT !.mounted = TRUE])
  /\ UNCHANGED <<now, storage, detail, profile, toast>>

\* The request for products?limit=20 resolves with an OK response.
FetchEventsOk ==
  /\ list.inflight > 0
  /\ list' = [list EXCEPT !.events = CatalogPage, !.loading = FALSE, !.inflight = @ - 1]
  /\ UNCHANGED <<now, storage, detail, profile, toast>>

\* The request rejects, or its response is not OK.
FetchEventsFail ==
  /\ list.inflight > 0
  /\ list' = [list EXCEPT !.error = "Failed to load events. Please try again.",
                          !.loading = FALSE, !.inflight = @ - 1]
  /\ toast' = [view |-> "list", title |-> "Error"]
  /\ UNCHANGED <<now, storage, detail, profile>>

\* Mutant: Try Again is offered while the spinner is up as well.
RetryList_whileLoading ==
  /\ list.mounted
  /\ list.inflight < MaxInFlight
  /\ list' = fetchEvents(list)
  /\ UNCHANGED <<now, storage, detail, profile, toast>>

\* Try Again in the error box.
RetryList ==
  /\ ListShown(list) /\ list.error # NoError
  /\ list.inflight < MaxInFlight
  /\ list' = fetchEvents(list)
  /\ UNCHANGED <<now, storage, detail, profile, toast>>

\* Mutant: the search stores the filtered list as the events.
SetSearchTerm_storesFiltered(term) ==
  /\ list.mounted /\ ~list.loading
  /\ list' = [list EXCEPT !.searchTerm = term, !.events = filterMatches(list.events, term)]
  /\ UNCHANGED <<now, storage, detail, profile, toast>>

\* The search box changes to `term` (Clear Search sets the empty term).
SetSearchTerm(term) ==
  /\ ListShown(list)
  /\ list' = [list EXCEPT !.searchTerm = term]
  /\ UNCHANGED <<now, storage, detail, profile, toast>>

\* ------------------------------------------------------------------ clock

Tick ==
  /\ now < MaxNow
  /\ now' = now + 1
  /\ UNCHANGED <<storage, detail, profile, list, toast>>

\* --------------------------------------------------------- specifications

Outcomes == {"ok", "throws"}

\* A registration an earlier session left in storage: event 3, registered one
\* instant before the clock's start, while it had stock.
earlierRegistration ==
  [id |-> Catalog["3"].id, title |-> Catalog["3"].title, price |-> Catalog["3"].price,
   thumbnail |-> Catalog["3"].thumbnail, category |-> Catalog["3"].category,
   registeredAt |-> toISOString(-1), eventDate |-> formatDateOn((-1) \div TicksPerDay, 3),
   location |-> getLocation(Catalog["3"].category)]

\* u1 has never registered (no key in storage); u2 has, in an earlier session.
Init ==
  /\ now = 0
  /\ storage = [u \in Users |->
                  IF u = "u1" THEN None ELSE Some(JSONstringify(<<earlierRegistration>>))]
  /\ detail = [d \in DetailViews |-> DetailInit]
  /\ profile = [p \in ProfileViews |-> ProfileInit]
  /\ list = ListInit
  /\ toast = [view |-> "", title |-> ""]

\* The registration store and the tabs that read and write it: two detail
\* pages and a profile page, each signed in as either user, and the clock.
Next ==
  \/ \E d \in DetailViews, u \in Users, id \in EventParams : MountDetail(d, u, id)
  \/ \E d \in DetailViews, id \in EventParams, origin \in Origins :
       FetchEventDetailOk(d, id, origin)
  \/ \E d \in DetailViews, id \in EventParams, origin \in Origins :
       FetchEventDetailFail(d, id, origin)
  \/ \E d \in DetailViews : RetryDetail(d)
  \/ \E d \in DetailViews, outcome \in Outcomes : HandleRegister(d, outcome)
  \/ \E p \in ProfileViews, u \in Users, outcome \in Outcomes : MountProfile(p, u, outcome)
  \/ \E p \in ProfileViews, eventId \in 1..3, outcome \in Outcomes :
       HandleUnregister(p, eventId, outcome)
  \/ Tick

Spec == Init /\ [][Next]_vars

\* Search terms typed in the tabs and route specifications.
FewTerms == {<<>>, <<"O", "e">>}

\* Three tabs of user u1 side by side: the list page, a detail page and the
\* profile page, and the clock.
NextTabs ==
  \/ MountList
  \/ FetchEventsOk
  \/ FetchEventsFail
  \/ RetryList
  \/ \E term \in FewTerms : SetSearchTerm(term)
  \/ \E id \in EventParams : MountDetail("d1", "u1", id)
  \/ \E id \in EventParams, origin \in Origins : FetchEventDetailOk("d1", id, origin)
  \/ \E id \in EventParams, origin \in Origins : FetchEventDetailFail("d1", id, origin)
  \/ RetryDetail("d1")
  \/ \E index \in 0..1 : SetCurrentImageIndex("d1", index)
  \/ \E outcome \in Outcomes : HandleRegister("d1", outcome)
  \/ \E outcome \in Outcomes : MountProfile("p1", "u1", outcome)
  \/ \E eventId \in 1..3, outcome \in Outcomes : HandleUnregister("p1", eventId, outcome)
  \/ Tick

SpecTabs == Init /\ [][NextTabs]_vars

\* The list page and a detail page of user u1 whose route parameter changes
\* under it, with their requests settling in any order.
NextRoute ==
  \/ MountList
  \/ FetchEventsOk
  \/ FetchEventsFail
  \/ RetryList
  \/ \E term \in FewTerms : SetSearchTerm(term)
  \/ \E id \in EventParams : MountDetail("d1", "u1", id)
  \/ \E id \in EventParams : RouteChange("d1", id)
  \/ \E id \in EventParams, origin \in Origins : FetchEventDetailOk("d1", id, origin)
  \/ \E id \in EventParams, origin \in Origins : FetchEventDetailFail("d1", id, origin)
  \/ RetryDetail("d1")
  \/ \E index \in 0..1 : SetCurrentImageIndex("d1", index)
  \/ \E outcome \in Outcomes : HandleRegister("d1", outcome)

SpecRoute == Init /\ [][NextRoute]_vars

\* Longest search term typed in the list specification.
MaxTermLen == 2
Alphabet == {"e", "E", "g", "O", "t", "x"}
Terms == UNION {[1..k -> Alphabet] : k \in 0..MaxTermLen}

\* The list page alone, with every search term up to MaxTermLen.
NextList ==
  \/ MountList
  \/ FetchEventsOk
  \/ FetchEventsFail
  \/ RetryList
  \/ \E term \in Terms : SetSearchTerm(term)

SpecList == Init /\ [][NextList]_vars

\* One detail page, opened by either user on any of the route parameters,
\* with the gallery, the toggle and the clock.
NextTimes ==
  \/ \E u \in Users, id \in AllParams : MountDetail("d1", u, id)
  \/ \E id \in AllParams, origin \in Origins : FetchEventDetailOk("d1", id, origin)
  \/ \E id \in AllParams, origin \in Origins : FetchEventDetailFail("d1", id, origin)
  \/ RetryDetail("d1")
  \/ \E index \in 0..1 : SetCurrentImageIndex("d1", index)
  \/ \E outcome \in Outcomes : HandleRegister("d1", outcome)
  \/ Tick

SpecTimes == Init /\ [][NextTimes]_vars

\* What useAuth() hands a page of this browser: no user, or the user u2.
Sessions == {NoUser, "u2"}

\* A detail page and the profile page of one browser whose session comes and
\* goes: the pages are opened with or without a user, and the user changes
\* under them.
NextSession ==
  \/ \E u \in Sessions, id \in EventParams : MountDetail("d1", u, id)
  \/ \E id \in EventParams, origin \in Origins : FetchEventDetailOk("d1", id, origin)
  \/ \E id \in EventParams, origin \in Origins : FetchEventDetailFail("d1", id, origin)
  \/ RetryDetail("d1")
  \/ \E u \in Sessions : UserChange("d1", u)
  \/ \E outcome \in Outcomes : HandleRegister("d1", outcome)
  \/ \E u \in Sessions, outcome \in Outcomes : MountProfile("p1", u, outcome)
  \/ \E u \in Sessions, outcome \in Outcomes : ProfileUserChange("p1", u, outcome)
  \/ \E eventId \in 1..3, outcome \in Outcomes : HandleUnregister("p1", eventId, outcome)

SpecSession == Init /\ [][NextSession]_vars

\* ------------------------------------------------------------------ claims

\* How many registrations of a list carry the id `id`.
countId(events, id) == Cardinality({i \in 1..Len(events) : events[i].id = id})

\* C1: for every user U and every event E, the list stored under
\* registrations_U holds at most one registration whose id is E, in every
\* state the tabs can reach by register/unregister toggles and profile removals.
C1_AtMostOncePerEvent ==
  \A u \in Users : \A id \in 1..3 : countId(parseStored(storage[u]), id) <= 1

\* C2: registration lists are partitioned by user. A step changes the text
\* under registrations_V only when a view signed in as V runs handleRegister or
\* the profile's handleUnregister; what a view signed in as U reads (the list
\* the profile loads, the isRegistered flag the detail page computes) comes
\* from registrations_U alone.
C2_PartitionedByUser ==
  [][ /\ \A v \in Users :
           storage'[v] # storage[v] =>
             \/ \E d \in DetailViews :
                  detail[d].user = v /\ \E outcome \in Outcomes : HandleRegister(d, outcome)
             \/ \E p \in ProfileViews :
                  profile[p].user = v /\
                  \E eventId \in 1..3, outcome \in Outcomes : HandleUnregister(p, eventId, outcome)
      /\ \A p \in ProfileViews :
           (profile'[p] # profile[p] /\ storage' = storage /\ profile'[p].user \in Users) =>
             LET own == parseStored(storage[profile'[p].user])
                 shown == profile'[p].registeredEvents
             IN  \A i \in 1..Len(shown) : \E j \in 1..Len(own) : own[j] = shown[i]
      /\ \A d \in DetailViews :
           (detail'[d].isRegistered # detail[d].isRegistered /\ storage' = storage) =>
             detail'[d].isRegistered =
               (\E j \in 1..Len(parseStored(storage[detail'[d].user])) :
                  parseStored(storage[detail'[d].user])[j].id = ParseInt(detail'[d].eventId))
    ]_vars

\* A view of u1 has just registered while u2's list is in storage, untouched.
C2_Witness ==
  \E d \in DetailViews :
    /\ toast = [view |-> d, title |-> "Registration Successful!"]
    /\ detail[d].user = "u1"
    /\ parseStored(storage["u1"]) # <<>>
    /\ parseStored(storage["u2"]) = <<earlierRegistration>>

\* C3: when handleRegister completes without error on a view whose
\* isRegistered is false, the user's stored list contains a registration with
\* the event's id and isRegistered is true; on a view whose isRegistered is
\* true, the stored list contains none with the event's id and isRegistered
\* is false.
C3_ToggleCreatesAndRemoves ==
  [][ \A d \in DetailViews :
        (HandleRegister(d, "ok") /\ detail[d].user # NoUser) =>
          LET id == Val(detail[d].event).id
              after == parseStored(storage'[detail[d].user])
              found == \E i \in 1..Len(after) : after[i].id = id
          IN  IF detail[d].isRegistered
              THEN ~found /\ ~detail'[d].isRegistered
              ELSE found /\ detail'[d].isRegistered
    ]_vars

\* A view has just unregistered an event that was stored twice, and another
\* registration stays behind.
C3_Witness ==
  \E d \in DetailViews :
    /\ toast = [view |-> d, title |-> "Unregistered Successfully"]
    /\ ~detail[d].isRegistered
    /\ countId(parseStored(storage[detail[d].user]), Val(detail[d].event).id) = 0
    /\ parseStored(storage[detail[d].user]) # <<>>

\* C4: the profile's handleUnregister of registration E leaves in storage
\* exactly the registrations that were in storage immediately before it and
\* whose id is not E, in the same relative order.
C4_ProfileRemovesExactlyOne ==
  [][ \A p \in ProfileViews : \A eventId \in 1..3 :
        (HandleUnregister(p, eventId, "ok") /\ profile[p].user # NoUser) =>
          parseStored(storage'[profile[p].user]) =
            SelectSeq(parseStored(storage[profile[p].user]), LAMBDA r : r.id # eventId)
    ]_vars

\* C5: the date, time and venue shown for an event depend on the identifier
\* and the category only: evaluated again in the next state, whatever changed
\* (the clock included), formatDate, formatTime and getLocation return the
\* same values.
C5_PresentationDeterministic ==
  [][ /\ \A id \in 0..31 :
           /\ formatDate(id)' = formatDate(id)
           /\ listFormatDate(id)' = listFormatDate(id)
           /\ formatTime(id)' = formatTime(id)
      /\ \A category \in {"tops", "beauty", "lighting"} :
           getLocation(category)' = getLocation(category)
    ]_vars

\* Case-insensitive comparison of two characters, and of a term with a run of a text.
UpperChar(c) ==
  CASE c = "e" -> "E" [] c = "g" -> "G" [] c = "o" -> "O" [] c = "t" -> "T" [] OTHER -> c

sameLetter(a, b) == a = b \/ UpperChar(a) = b \/ a = UpperChar(b)

containsIgnoringCase(text, term) ==
  \E i \in 0..(Len(text) - Len(term)) :
    \A k \in 1..Len(term) : sameLetter(text[i + k], term[k])

\* The positions of the fetched events whose title or category contains the term.
wanted(events, term) ==
  {i \in 1..Len(events) :
     \/ containsIgnoringCase(Chars(events[i].title), term)
     \/ containsIgnoringCase(Chars(events[i].category), term)}

\* C6: the list view shows exactly the fetched events whose title or category
\* contains the search term, compared case-insensitively, in the order they
\* were fetched; with the empty term it shows every fetched event.
C6_FilterBySubstring ==
  ListShown(list) =>
    LET shown == filteredEvents(list)
        idx == wanted(list.events, list.searchTerm)
    IN  /\ Len(shown) = Cardinality(idx)
        /\ \A j \in 1..Len(shown) :
             \E i \in idx : /\ Cardinality({m \in idx : m < i}) = j - 1
                            /\ shown[j] = list.events[i]
        /\ list.searchTerm = <<>> => shown = list.events

\* The term "Oe" (upper O, lower e) finds "ToE" and nothing else.
C6_Witness ==
  /\ ListShown(list)
  /\ list.searchTerm = <<"O", "e">>
  /\ filteredEvents(list) = <<Catalog["2"]>>

RECURSIVE sumPrices(_, _)
\* The sum of the prices at the positions S of a list.
sumPrices(events, S) ==
  IF S = {} THEN 0
  ELSE LET i == CHOOSE j \in S : TRUE IN events[i].price + sumPrices(events, S \ {i})

\* C7: on the profile view, once loaded, the total-events figure is the number
\* of displayed registrations, the total-spent figure the sum of their prices
\* and the categories figure the number of distinct categories among them;
\* all three are 0 for the empty list.
C7_ProfileFigures ==
  \A p \in ProfileViews :
    (profile[p].mounted /\ ~profile[p].loading) =>
      LET r == profile[p].registeredEvents
      IN  /\ totalEvents(r) = Cardinality(DOMAIN r)
          /\ getTotalSpent(r) = sumPrices(r, DOMAIN r)
          /\ categoryCount(r) = Cardinality({r[i].category : i \in DOMAIN r})
          /\ r = <<>> => (totalEvents(r) = 0 /\ getTotalSpent(r) = 0 /\ categoryCount(r) = 0)

\* The profile has just removed a registration and still shows several, two
\* of them of one category.
C7_Witness ==
  \E p \in ProfileViews :
    /\ toast = [view |-> p, title |-> "Unregistered Successfully"]
    /\ Len(profile[p].registeredEvents) >= 2
    /\ categoryCount(profile[p].registeredEvents) < Len(profile[p].registeredEvents)
    /\ getTotalSpent(profile[p].registeredEvents) > 0

\* C8: the register branch of handleRegister stores the old list unchanged
\* followed by one new registration, which carries the displayed event's id,
\* title, price, thumbnail and category, formatDate(event.id) as eventDate and
\* getLocation(event.category) as location.
C8_NewRegistrationAppended ==
  [][ \A d \in DetailViews :
        (HandleRegister(d, "ok") /\ detail[d].user # NoUser /\ ~detail[d].isRegistered) =>
          LET before == parseStored(storage[detail[d].user])
              after == parseStored(storage'[detail[d].user])
              event == Val(detail[d].event)
              new == after[Len(after)]
          IN  /\ Len(after) = Len(before) + 1
              /\ SubSeq(after, 1, Len(before)) = before
              /\ new.id = event.id /\ new.title = event.title /\ new.price = event.price
              /\ new.thumbnail = event.thumbnail /\ new.category = event.category
              /\ new.eventDate = formatDate(event.id)
              /\ new.location = getLocation(event.category)
    ]_vars

\* A view has just registered, after the clock's start, behind a registration
\* that was already stored.
C8_Witness ==
  \E d \in DetailViews :
    /\ toast = [view |-> d, title |-> "Registration Successful!"]
    /\ now > 0
    /\ LET regs == parseStored(storage[detail[d].user])
       IN  /\ Len(regs) >= 2
           /\ regs[Len(regs)].id = Val(detail[d].event).id
           /\ regs[Len(regs)].registeredAt = toISOString(now)

\* C9: fetched event data is never mutated locally. The events of the list
\* view change only when fetchEvents succeeds and the event of a detail view
\* only when fetchEventDetail succeeds; register, unregister, a search-term
\* change, an image selection and a profile removal leave both unchanged.
C9_EventDataOnlyFromFetch ==
  [][ /\ list'.events # list.events => FetchEventsOk
      /\ \A d \in DetailViews :
           detail'[d].event # detail[d].event =>
             \E id \in EventParams, origin \in Origins : FetchEventDetailOk(d, id, origin)
      /\ ( \/ \E d \in DetailViews, outcome \in Outcomes : HandleRegister(d, outcome)
           \/ \E d \in DetailViews, index \in 0..1 : SetCurrentImageIndex(d, index)
           \/ \E term \in FewTerms : SetSearchTerm(term)
           \/ \E p \in ProfileViews, eventId \in 1..3, outcome \in Outcomes :
                HandleUnregister(p, eventId, outcome) )
         => /\ list'.events = list.events
            /\ \A d \in DetailViews : detail'[d].event = detail[d].event
    ]_vars

\* After a search, an image selection, a registration and a profile removal,
\* the fetched page and the fetched event are as the API returned them.
C9_Witness ==
  /\ list.events = CatalogPage /\ list.searchTerm = <<"O", "e">>
  /\ detail["d1"].event = Some(Catalog["1"]) /\ detail["d1"].currentImageIndex = 1
  /\ detail["d1"].isRegistered
  /\ toast = [view |-> "p1", title |-> "Unregistered Successfully"]

\* C10: a failed fetch (list or detail) leaves a non-null error, loading false,
\* the held events/event unchanged and the retry offered; retry sets error to
\* null and loading to true and issues the request again; a retry that
\* succeeds ends with error null, loading false and the fetched data stored.
C10_FailureAndRetry ==
  [][ /\ FetchEventsFail =>
           /\ list'.error # NoError /\ ~list'.loading /\ list'.events = list.events
           /\ ListShown(list')
      /\ RetryList =>
           list'.error = NoError /\ list'.loading /\ list'.inflight = list.inflight + 1
      /\ FetchEventsOk =>
           list'.error = NoError /\ ~list'.loading /\ list'.events = CatalogPage
      /\ \A d \in DetailViews :
           /\ (\E id \in EventParams, origin \in Origins : FetchEventDetailFail(d, id, origin)) =>
                /\ detail'[d].error # NoError /\ ~detail'[d].loading
                /\ detail'[d].event = detail[d].event
                /\ DetailRetryOffered(detail'[d])
           /\ RetryDetail(d) =>
                /\ detail'[d].error = NoError /\ detail'[d].loading
                /\ pending(detail'[d]) = pending(detail[d]) + 1
           /\ \A id \in EventParams :
                FetchEventDetailOk(d, id, "retry") =>
                  /\ detail'[d].error = NoError /\ ~detail'[d].loading
                  /\ detail'[d].event = Some(Catalog[id])
    ]_vars

\* C11: the detail view shows the event of the route identifier. Whenever the
\* page body is rendered (loading false, error null, an event held), the held
\* event is the API's answer for the current route eventId, also when the
\* route changed while a request was in flight and the answers arrive in any
\* order.
C11_ShowsRouteEvent ==
  \A d \in DetailViews :
    DetailShown(detail[d]) => Val(detail[d].event) = Catalog[detail[d].eventId]

\* C12: the detail-view toggle is a round trip. When a view unregisters
\* directly after its own successful registration (its toast is still the
\* last one raised, so no view has written storage in between) and the list
\* before that registration held no registration of the event, the stored
\* list is again that list, element for element and in order, and
\* isRegistered is false.
C12_ToggleRoundTrip ==
  [][ \A d \in DetailViews :
        LET stored == parseStored(storage[detail[d].user])
            before == SubSeq(stored, 1, Len(stored) - 1)
        IN  ( /\ HandleRegister(d, "ok")
              /\ detail[d].user # NoUser
              /\ detail[d].isRegistered
              /\ toast = [view |-> d, title |-> "Registration Successful!"]
              /\ ~some(before, Val(detail[d].event).id) )
            => /\ parseStored(storage'[detail[d].user]) = before
               /\ ~detail'[d].isRegistered
    ]_vars

\* The only open view has registered and then unregistered, and the list it
\* started from, which was not empty, is back in storage.
C12_Witness ==
  \E d \in DetailViews :
    /\ toast = [view |-> d, title |-> "Unregistered Successfully"]
    /\ detail[d].user = "u2"
    /\ ~detail[d].isRegistered
    /\ parseStored(storage["u2"]) = <<earlierRegistration>>
    /\ \A other \in DetailViews \ {d} : ~detail[other].mounted
    /\ \A p \in ProfileViews : ~profile[p].mounted

\* C13: the profile view displays the registrations newest first. After
\* loadRegisteredEvents and after any removals, of every two adjacent
\* displayed registrations the upper one has a registeredAt not older than
\* the lower one's.
C13_NewestFirst ==
  \A p \in ProfileViews :
    LET r == profile[p].registeredEvents
    IN  \A i \in 1..(Len(r) - 1) :
          getTime(r[i].registeredAt) >= getTime(r[i + 1].registeredAt)

\* The profile has just removed the middle one of three registrations made
\* at three different instants; the newest and the oldest are displayed.
C13_Witness ==
  \E p \in ProfileViews :
    /\ toast = [view |-> p, title |-> "Unregistered Successfully"]
    /\ Len(profile[p].registeredEvents) = 2
    /\ getTime(profile[p].registeredEvents[1].registeredAt) = getTime(toISOString(1))
    /\ profile[p].registeredEvents[2] = earlierRegistration

\* C14: without a signed-in user nothing touches the registration store.
\* With user null, handleRegister leaves storage and the view as they are;
\* the effects that would run checkRegistrationStatus and loadRegisteredEvents
\* leave storage, isRegistered and the displayed list as they are (a page
\* opened without a user keeps its initial list and spinner); the profile's
\* handleUnregister leaves storage and the displayed list as they are;
\* saveRegisteredEvents writes no key and getRegisteredEvents returns the
\* empty list.
C14_NoUserNoStore ==
  [][ /\ \A d \in DetailViews :
           /\ ((\E outcome \in Outcomes : HandleRegister(d, outcome)) /\ detail[d].user = NoUser) =>
                storage' = storage /\ detail'[d] = detail[d]
           /\ (detail'[d] # detail[d] /\ detail'[d].user = NoUser) =>
                storage' = storage /\ detail'[d].isRegistered = detail[d].isRegistered
      /\ \A p \in ProfileViews :
           /\ (\E outcome \in Outcomes : MountProfile(p, NoUser, outcome)) =>
                /\ storage' = storage
                /\ profile'[p].registeredEvents = ProfileInit.registeredEvents
                /\ profile'[p].loading = ProfileInit.loading
           /\ (\E outcome \in Outcomes : ProfileUserChange(p, NoUser, outcome)) =>
                /\ storage' = storage
                /\ profile'[p].registeredEvents = profile[p].registeredEvents
                /\ profile'[p].loading = profile[p].loading
           /\ ((\E eventId \in 1..3, outcome \in Outcomes : HandleUnregister(p, eventId, outcome))
               /\ profile[p].user = NoUser) =>
                storage' = storage /\ profile'[p] = profile[p]
      /\ getRegisteredEvents(NoUser) = <<>>
      /\ \A events \in {<<>>, <<earlierRegistration>>} :
           saveRegisteredEvents(NoUser, events) = storage
    ]_vars

\* Both pages have lost their user after working for u2: the detail page
\* still says registered and the profile still displays what it loaded, and
\* storage holds what u2 stored.
C14_Witness ==
  /\ detail["d1"].user = NoUser /\ DetailShown(detail["d1"]) /\ detail["d1"].isRegistered
  /\ profile["p1"].user = NoUser /\ ~profile["p1"].loading
  /\ Len(profile["p1"].registeredEvents) = 2
  /\ Len(parseStored(storage["u2"])) = 2

\* C15: the time shown for an event lies between 9 AM and 4 PM. For the event
\* a detail page displays, formatTime has the hour 9 + (id mod 8), a minute
\* out of 0, 15, 30, 45, a time of day not before 9:00 and not after 16:00,
\* and the suffix PM exactly when the hour is 12 or more.
C15_FormatTimeWindow ==
  \A d \in DetailViews :
    DetailShown(detail[d]) =>
      LET id == Val(detail[d].event).id
          t == formatTime(id)
          minutes == 10 * t.minutes[1] + t.minutes[2]
          timeOfDay == 60 * t.hours + minutes
      IN  /\ t.hours = 9 + (id % 8)
          /\ minutes \in {0, 15, 30, 45}
          /\ 9 * 60 <= timeOfDay /\ timeOfDay <= 16 * 60
          /\ (t.suffix = "PM") <=> (t.hours >= 12)

\* C16: in a single detail view with no other writer to the user's list,
\* once checkRegistrationStatus has run for the user and the route eventId,
\* isRegistered is true exactly when the stored list holds a registration
\* whose id is the route eventId, and stays so through every handleRegister,
\* successful or failed.
C16_IsRegisteredMatchesStore ==
  \A d \in DetailViews :
    (detail[d].mounted /\ detail[d].user # NoUser) =>
      detail[d].isRegistered =
        some(parseStored(storage[detail[d].user]), ParseInt(detail[d].eventId))

\* C17: a failed storage operation changes no state. When reading or writing
\* throws inside handleRegister, isRegistered and the stored list keep their
\* values, the failure toast is raised and registering is false again; when
\* writing throws inside the profile's handleUnregister, the displayed list
\* and the stored list keep their values; when reading or parsing throws
\* inside loadRegisteredEvents, the displayed list stays empty and loading
\* becomes false.
C17_FailedStorageChangesNothing ==
  [][ /\ \A d \in DetailViews :
           (HandleRegister(d, "throws") /\ detail[d].user # NoUser) =>
             /\ detail'[d].isRegistered = detail[d].isRegistered
             /\ storage' = storage
             /\ toast' = [view |-> d, title |-> "Registration Failed"]
             /\ ~detail'[d].registering
      /\ \A p \in ProfileViews :
           /\ \A eventId \in 1..3 :
                (HandleUnregister(p, eventId, "throws") /\ profile[p].user # NoUser) =>
                  /\ profile'[p].registeredEvents = profile[p].registeredEvents
                  /\ storage' = storage
           /\ \A u \in Users :
                MountProfile(p, u, "throws") =>
                  /\ profile'[p].registeredEvents = <<>>
                  /\ ~profile'[p].loading
                  /\ storage' = storage
    ]_vars

\* A registered view has just failed to unregister: the failure toast is up,
\* the flag is still true and the registration is still stored, while the
\* profile of the same user shows the empty list without the spinner.
C17_Witness ==
  \E d \in DetailViews :
    /\ toast = [view |-> d, title |-> "Registration Failed"]
    /\ detail[d].isRegistered /\ ~detail[d].registering
    /\ some(parseStored(storage[detail[d].user]), Val(detail[d].event).id)
    /\ \E p \in ProfileViews :
         /\ profile[p].mounted /\ ~profile[p].loading
         /\ profile[p].user = detail[d].user
         /\ profile[p].registeredEvents = <<>>

\* C18: in the list view at most one fetch is in flight at any time, and
\* loading is true exactly while one is. fetchEvents is started by the mount
\* effect and by Try Again only; Try Again is rendered only with loading false
\* and error non-null; every fetch that settles, OK or not, sets loading to
\* false.
C18_SingleFetchInFlight ==
  [][ /\ list.inflight <= 1
      /\ list.mounted => (list.loading <=> list.inflight = 1)
      /\ list'.inflight > list.inflight =>
           /\ MountList \/ RetryList
           /\ RetryList => (~list.loading /\ list.error # NoError)
      /\ list'.inflight < list.inflight => ~list'.loading
    ]_vars

\* After a failed fetch, Try Again has issued the one request in flight.
C18_Witness ==
  /\ list.mounted /\ list.loading /\ list.inflight = 1
  /\ list.error = NoError
  /\ toast = [view |-> "list", title |-> "Error"]

====
